---- MODULE Spec2Model ----
(***************************************************************************)
(* State-machine model of ai_simple_personal_trainer.py.                   *)
(*                                                                         *)
(* The program is sequential: control is a stack of frames, one frame per  *)
(* active Python function.  Every request to the opinion source (Ollama)   *)
(* is one step; its reply is chosen by the environment.  Texts are         *)
(* sequences of one-character strings, so that the substring tests and the *)
(* digit search of the code are computed as the code computes them; the    *)
(* fixed prompt texts are abbreviated to one element each.                 *)
(***************************************************************************)
EXTENDS Integers, Sequences, FiniteSets, TLC

VARIABLES
  stack,          \* the call stack: a sequence of frames, the last is running
  overPrompt,     \* the global transcript string (line 229)
  files,          \* the output files written so far: name -> text
  result,         \* <<v>> once the entry function has returned v, else <<>>
  aborted,        \* TRUE once an exception has ended the process
  lastReq,        \* the payload of the most recent request
  lastReply,      \* the reply to it
  transcriptSent, \* history: requests so far whose prompt embedded overPrompt
  requests,       \* history: calls of requests.post so far
  deviationsLeft, \* environment: refusals / vague answers it may still give
  failuresLeft    \* environment: non-success statuses it may still give

vars == <<stack, overPrompt, files, result, aborted, lastReq, lastReply,
          transcriptSent, requests, deviationsLeft, failuresLeft>>

\* what a step without a request leaves alone
exchange ==
  <<lastReq, lastReply, transcriptSent, requests, deviationsLeft, failuresLeft>>

(***************************************************************************)
(* Bounds of the model: the environment's budgets.                         *)
(***************************************************************************)
MaxDeviations == 2      \* answers other than the expected one, per full run
MaxFailures == 0        \* non-success statuses, per full run
MaxCallFailures == 1    \* non-success statuses, per call of one function

(***************************************************************************)
(* Texts.                                                                  *)
(***************************************************************************)
Digits == {"0", "1", "2", "3", "4", "5", "6", "7", "8", "9"}

DigitChar(d) ==
  CASE d = 0 -> "0" [] d = 1 -> "1" [] d = 2 -> "2" [] d = 3 -> "3"
    [] d = 4 -> "4" [] d = 5 -> "5" [] d = 6 -> "6" [] d = 7 -> "7"
    [] d = 8 -> "8" [] d = 9 -> "9"

\* str(n) of a non-negative integer, as the f-string of lines 87, 115, 143
RECURSIVE Str(_)
Str(n) == IF n < 10 THEN <<DigitChar(n)>>
          ELSE Str(n \div 10) \o <<DigitChar(n % 10)>>

\* Python's `sub in s` for strings
Contains(sub, s) ==
  \E i \in 0..(Len(s) - Len(sub)) : SubSeq(s, i + 1, i + Len(sub)) = sub

\* bool(_digits.search(desc)), _digits = re.compile('\d')
HasDigit(s) == \E i \in 1..Len(s) : s[i] \in Digits

PHRASE_INAPPROPRIATE ==
  <<"i", "n", "a", "p", "p", "r", "o", "p", "r", "i", "a", "t", "e">>
PHRASE_NOT_APPROPRIATE ==
  <<"n", "o", "t", " ", "a", "p", "p", "r", "o", "p", "r", "i", "a", "t", "e">>
PHRASE_NOT_TO_JUDGE ==
  <<"n", "o", "t", " ", "t", "o", " ", "j", "u", "d", "g", "e">>

RefusalPhrases ==
  {PHRASE_INAPPROPRIATE, PHRASE_NOT_APPROPRIATE, PHRASE_NOT_TO_JUDGE}

PROMPT_ENGINEERING_RATING == <<"  Where there is insufficient information ... Please always produce a number.">>

BACK_IMAGE == "image_back.jpeg"
FRONT_IMAGE == "image_front.jpeg"
SIDE_IMAGE == "image_side.jpeg"

(***************************************************************************)
(* The opinion source.  A reply is a status code and a response text, or   *)
(* the source is unreachable (requests.post raises).  `kind` is the        *)
(* environment's own label of the reply, used for its budgets only.        *)
(***************************************************************************)
HTTP_OK == 200
FailStatuses == {500}

TXT_RATING == <<"7", "/", "1", "0">>
TXT_NO_DIGIT == <<"f", "i", "t">>
TXT_INAPPROPRIATE_5 ==
  <<"i", "n", "a", "p", "p", "r", "o", "p", "r", "i", "a", "t", "e", " ", "5">>
TXT_NOT_APPROPRIATE_3 ==
  <<"n", "o", "t", " ", "a", "p", "p", "r", "o", "p", "r", "i", "a", "t", "e", " ", "3">>
TXT_NOT_TO_JUDGE_4 ==
  <<"n", "o", "t", " ", "t", "o", " ", "j", "u", "d", "g", "e", " ", "4">>
TXT_FUSED == <<"8", "/", "1", "0">>

\* what the source may answer to a rating request (image + prompt)
RatingAnswers ==
  [nominal |-> {TXT_RATING},
   deviant |-> {TXT_NO_DIGIT, TXT_INAPPROPRIATE_5, TXT_NOT_APPROPRIATE_3,
                TXT_NOT_TO_JUDGE_4}]

\* what it may answer to the fusion request of analyze_image_rating
FusionAnswers == [nominal |-> {TXT_FUSED}, deviant |-> {}]

Unreachable ==
  [kind |-> "unreachable", status_code |-> 0, response |-> <<>>]

OpinionSource(answers) ==
  {[kind |-> "nominal", status_code |-> HTTP_OK, response |-> t] :
      t \in answers.nominal}
  \cup {[kind |-> "deviant", status_code |-> HTTP_OK, response |-> t] :
      t \in IF deviationsLeft > 0 THEN answers.deviant ELSE {}}
  \cup {[kind |-> "failure", status_code |-> s, response |-> <<>>] :
      s \in IF failuresLeft > 0 THEN FailStatuses ELSE {}}
  \cup {Unreachable}

NoRequest == [model |-> "", prompt |-> <<>>, images |-> <<>>, stream |-> FALSE]
NoReply == [kind |-> "", status_code |-> 0, response |-> <<>>]

(***************************************************************************)
(* The three request functions: the payload each builds, and the text each *)
(* returns for a reply.                                                    *)
(***************************************************************************)
\* variant: the back photograph encoded whatever the path
encode_image_back(image_path) == <<"base64", BACK_IMAGE>>

encode_image(image_path) == <<"base64", image_path>>

analyze_image_internal_payload(image_path, prompt) ==
  [model |-> "llava", prompt |-> prompt,
   images |-> <<encode_image(image_path)>>, stream |-> FALSE]

send_prompt_payload(prompt) ==
  [model |-> "llava", prompt |-> prompt, images |-> <<>>, stream |-> FALSE]

\* variant: the large agent's requests sent to the small agent
send_prompt_gpt_oss_payload_llava(prompt) ==
  [model |-> "llava", prompt |-> prompt, images |-> <<>>, stream |-> FALSE]

send_prompt_gpt_oss_payload(prompt) ==
  [model |-> "gpt-oss:20b", prompt |-> prompt, images |-> <<>>,
   stream |-> FALSE]

\* variant: an empty response treated as an error
response_text_nonempty(reply) ==
  IF reply.status_code = HTTP_OK /\ reply.response # <<>>
    THEN reply.response
    ELSE <<"E", "r", "r", "o", "r", ":", " ">> \o Str(reply.status_code)

\* lines 83-87 (and 111-115, 139-143): the text returned for a reply
response_text(reply) ==
  IF reply.status_code = HTTP_OK
    THEN reply.response
    ELSE <<"E", "r", "r", "o", "r", ":", " ">> \o Str(reply.status_code)

(***************************************************************************)
(* Stack helpers.                                                          *)
(***************************************************************************)
Running == stack # <<>>
Top == stack[Len(stack)]
Callers == SubSeq(stack, 1, Len(stack) - 1)

\* history field `reqs` of a frame: requests issued while it is on the stack
CountRequest(s) ==
  [i \in DOMAIN s |->
     IF "reqs" \in DOMAIN s[i] THEN [s[i] EXCEPT !.reqs = @ + 1] ELSE s[i]]

\* one HTTP exchange: records it and charges the environment's budgets
Post(req, r, embedsOverPrompt) ==
  /\ lastReq' = req
  /\ lastReply' = r
  /\ transcriptSent' = IF embedsOverPrompt THEN transcriptSent + 1
                       ELSE transcriptSent
  /\ requests' = requests + 1
  /\ deviationsLeft' =
       IF r.kind = "deviant" THEN deviationsLeft - 1 ELSE deviationsLeft
  /\ failuresLeft' =
       IF r.kind = "failure" THEN failuresLeft - 1 ELSE failuresLeft

\* requests.post raised: nothing catches it, the process ends
Raise ==
  /\ stack' = <<>>
  /\ aborted' = TRUE
  /\ UNCHANGED <<overPrompt, files, result>>

(***************************************************************************)
(* analyze_image_rating_internal (lines 161-172).                          *)
(***************************************************************************)
MaxRetries == 15

\* variant: the suffix of line 191 appended to the prompt once more
AcquirerFrameSuffixAgain(image_path, prompt) ==
  [fn |-> "analyze_image_rating_internal", pc |-> "163",
   image_path |-> image_path, prompt |-> prompt \o PROMPT_ENGINEERING_RATING,
   desc |-> <<>>, count |-> 0, found |-> FALSE, reqs |-> 0]

AcquirerFrame(image_path, prompt) ==
  [fn |-> "analyze_image_rating_internal", pc |-> "163",
   image_path |-> image_path, prompt |-> prompt,
   desc |-> <<>>, count |-> 0, found |-> FALSE, reqs |-> 0]

\* variant: the digit test of lines 166 and 170 left out
InvalidPhrasesOnly(desc) ==
  \/ Contains(PHRASE_INAPPROPRIATE, desc)
  \/ Contains(PHRASE_NOT_APPROPRIATE, desc)
  \/ Contains(PHRASE_NOT_TO_JUDGE, desc)

\* variant: the phrase "not to judge" left out of lines 165 and 169
InvalidTwoPhrases(desc) ==
  \/ Contains(PHRASE_INAPPROPRIATE, desc)
  \/ Contains(PHRASE_NOT_APPROPRIATE, desc)
  \/ ~HasDigit(desc)

\* lines 165-166 and 169-170: the value of `found` for a response
Invalid(desc) ==
  \/ Contains(PHRASE_INAPPROPRIATE, desc)
  \/ Contains(PHRASE_NOT_APPROPRIATE, desc)
  \/ Contains(PHRASE_NOT_TO_JUDGE, desc)
  \/ ~HasDigit(desc)

\* variant: off by one, count <= 15
LoopGuardInclusive(found, count) == found /\ count <= MaxRetries

\* variant: off by one the other way, one retry fewer
LoopGuardShort(found, count) == found /\ count < MaxRetries - 1

\* variant: validity ignored while retries remain
LoopGuardAlways(found, count) == count < MaxRetries

\* line 167: the condition of the while loop
LoopGuard(found, count) == found /\ count < MaxRetries

InAcquirer == Running /\ Top.fn = "analyze_image_rating_internal"

(***************************************************************************)
(* analyze_image_rating (lines 189-203).                                   *)
(***************************************************************************)
FuserFrame(image_path, inPrompt) ==
  [fn |-> "analyze_image_rating", pc |-> "193",
   image_path |-> image_path,
   prompt |-> inPrompt \o PROMPT_ENGINEERING_RATING,        \* line 191
   quality |-> <<>>,               \* quality_A, quality_B, quality_C
   quality_overall |-> <<>>,
   reqs |-> 0, acqs |-> 0, fusions |-> 0]

\* line 199
FuserPrompt2(quality) ==
  <<"integrate these descriptions to generate an overall number for the person.\n\nDescription A:\n\n">>
  \o quality[1] \o <<"\n\nDescription B:\n\n">> \o quality[2]
  \o <<"\n\nDescription C:\n\n">> \o quality[3]

\* variant: the call of line 197 left out
AfterAcquireTwice(pc) ==
  CASE pc = "193" -> "195" [] pc = "195" -> "199" [] pc = "197" -> "199"

\* the line after the call at line 193, 195, 197
AfterAcquire(pc) ==
  CASE pc = "193" -> "195" [] pc = "195" -> "197" [] pc = "197" -> "199"

InFuser == Running /\ Top.fn = "analyze_image_rating"

(***************************************************************************)
(* The category evaluators (lines 303-953), as a table: the views each     *)
(* rates in order, with the prompt of each, the head of its fusion prompt  *)
(* (prompt2) with the label put before each view's text, whether it sends  *)
(* prompt2 at all, and the header it appends to overPrompt.                *)
(***************************************************************************)
Categories == <<
  [fn |-> "analyzeCardiovascularConditioning", fuse |-> TRUE,
   views |-> <<
      [image |-> BACK_IMAGE, prompt |-> <<"estimate the cardiovascular conditioning number on a scale from 0 to 10 for the person in the photo">>,
       label |-> "\n\nBack Photo:\n\n"],
      [image |-> FRONT_IMAGE, prompt |-> <<"estimate the cardiovascular conditioning number on a scale from 0 to 10 for the person in the photo">>,
       label |-> "\n\nFront Photo:\n\n"],
      [image |-> SIDE_IMAGE, prompt |-> <<"estimate the cardiovascular conditioning number on a scale from 0 to 10 for the person in the photo">>,
       label |-> "\n\nSide Photo:\n\n"]>>,
   prompt2 |-> "integrate these descriptions to estimate an overall cardiovascular conditioning number on a scale from 0 to 10 for the person.",
   header |-> "\n\ncardiovascular conditioning : \n\n"],
  [fn |-> "analyzeNeckAndTraps", fuse |-> TRUE,
   views |-> <<
      [image |-> BACK_IMAGE, prompt |-> <<"estimate the muscle quality number of the neck and trapezius on a scale from 0 to 10 for the person in the photo">>,
       label |-> "\n\nBack Photo:\n\n"],
      [image |-> FRONT_IMAGE, prompt |-> <<"estimate the muscle quality number of the neck on a scale from 0 to 10 for the person in the photo">>,
       label |-> "\n\nFront Photo:\n\n"],
      [image |-> SIDE_IMAGE, prompt |-> <<"estimate the muscle quality number of the neck and trapezius on a scale from 0 to 10 for the person in the photo">>,
       label |-> "\n\nSide Photo:\n\n"]>>,
   prompt2 |-> "integrate these descriptions to estimate an overall muscle quality number of the neck and trapezius on a scale from 0 to 10 for the person.",
   header |-> "\n\nneck : \n\n"],
  [fn |-> "analyzeUpperChest", fuse |-> TRUE,
   views |-> <<
      [image |-> FRONT_IMAGE, prompt |-> <<"estimate the muscle quality number of the upper chest on a scale from 0 to 10 for the person in the photo">>,
       label |-> "\n\nFront Photo:\n\n"],
      [image |-> SIDE_IMAGE, prompt |-> <<"estimate the muscle quality number of the upper chest on a scale from 0 to 10 for the person in the photo">>,
       label |-> "\n\nSide Photo:\n\n"]>>,
   prompt2 |-> "integrate these descriptions to estimate an overall muscle quality number of the upper chest on a scale from 0 to 10 for the person.",
   header |-> "\n\nupper chest : \n\n"],
  [fn |-> "analyzeLowerChest", fuse |-> TRUE,
   views |-> <<
      [image |-> FRONT_IMAGE, prompt |-> <<"estimate the muscle quality number of the lower chest on a scale from 0 to 10 for the person in the photo">>,
       label |-> "\n\nFront Photo:\n\n"],
      [image |-> SIDE_IMAGE, prompt |-> <<"estimate the muscle quality number of the lower chest on a scale from 0 to 10 for the person in the photo">>,
       label |-> "\n\nSide Photo:\n\n"]>>,
   prompt2 |-> "integrate these descriptions to estimate an overall muscle quality number of the lower chest on a scale from 0 to 10 for the person.",
   header |-> "\n\nlower chest : \n\n"],
  [fn |-> "analyzeUpperAbdominals", fuse |-> TRUE,
   views |-> <<
      [image |-> FRONT_IMAGE, prompt |-> <<"estimate the muscle quality number of the upper abdominals on a scale from 0 to 10 for the person in the photo">>,
       label |-> "\n\nFront Photo:\n\n"],
      [image |-> SIDE_IMAGE, prompt |-> <<"estimate the muscle quality number of the upper abdominals on a scale from 0 to 10 for the person in the photo">>,
       label |-> "\n\nSide Photo:\n\n"]>>,
   prompt2 |-> "integrate these descriptions to estimate an overall muscle quality number of the upper abdominals on a scale from 0 to 10 for the person.",
   header |-> "\n\nupper abdominals : \n\n"],
  [fn |-> "analyzeLowerAbdominals", fuse |-> TRUE,
   views |-> <<
      [image |-> FRONT_IMAGE, prompt |-> <<"estimate the muscle quality number of the lower abdominals on a scale from 0 to 10 for the person in the photo">>,
       label |-> "\n\nFront Photo:\n\n"],
      [image |-> SIDE_IMAGE, prompt |-> <<"estimate the muscle quality number of the lower abdominals on a scale from 0 to 10 for the person in the photo">>,
       label |-> "\n\nSide Photo:\n\n"]>>,
   prompt2 |-> "integrate these descriptions to estimate an overall muscle quality number of the lower abdominals on a scale from 0 to 10 for the person.",
   header |-> "\n\nlower abdominals : \n\n"],
  [fn |-> "analyzeQuadriceps", fuse |-> TRUE,
   views |-> <<
      [image |-> FRONT_IMAGE, prompt |-> <<"estimate the muscle quality number of the quadriceps on a scale from 0 to 10 for the person in the photo">>,
       label |-> "\n\nFront Photo:\n\n"],
      [image |-> SIDE_IMAGE, prompt |-> <<"estimate the muscle quality number of the quadriceps on a scale from 0 to 10 for the person in the photo">>,
       label |-> "\n\nSide Photo:\n\n"]>>,
   prompt2 |-> "integrate these descriptions to estimate an overall muscle quality number of the quadriceps on a scale from 0 to 10 for the person.",
   header |-> "\n\nquadriceps : \n\n"],
  [fn |-> "analyzeCalves", fuse |-> TRUE,
   views |-> <<
      [image |-> BACK_IMAGE, prompt |-> <<"estimate the muscle quality number of the calves on a scale from 0 to 10 for the person in the photo">>,
       label |-> "\n\nBack Photo:\n\n"],
      [image |-> SIDE_IMAGE, prompt |-> <<"estimate the muscle quality number of the calves on a scale from 0 to 10 for the person in the photo">>,
       label |-> "\n\nSide Photo:\n\n"]>>,
   prompt2 |-> "integrate these descriptions to estimate an overall muscle quality number of the calves on a scale from 0 to 10 for the person.",
   header |-> "\n\ncalves : \n\n"],
  [fn |-> "analyzeHamstrings", fuse |-> TRUE,
   views |-> <<
      [image |-> BACK_IMAGE, prompt |-> <<"estimate the muscle quality number of the hamstrings on a scale from 0 to 10 for the person in the photo">>,
       label |-> "\n\nBack Photo:\n\n"],
      [image |-> SIDE_IMAGE, prompt |-> <<"estimate the muscle quality number of the hamstrings on a scale from 0 to 10 for the person in the photo">>,
       label |-> "\n\nSide Photo:\n\n"]>>,
   prompt2 |-> "integrate these descriptions to estimate an overall muscle quality number of the hamstrings on a scale from 0 to 10 for the person.",
   header |-> "\n\nhamstrings : \n\n"],
  [fn |-> "analyzeLatissimus", fuse |-> TRUE,
   views |-> <<
      [image |-> BACK_IMAGE, prompt |-> <<"estimate the muscle quality number of the latissimus on a scale from 0 to 10 for the person in the photo">>,
       label |-> "\n\nBack Photo:\n\n"],
      [image |-> SIDE_IMAGE, prompt |-> <<"estimate the muscle quality number of the latissimus on a scale from 0 to 10 for the person in the photo">>,
       label |-> "\n\nSide Photo:\n\n"]>>,
   prompt2 |-> "integrate these descriptions to estimate an overall muscle quality number of the latissimus on a scale from 0 to 10 for the person.",
   header |-> "\n\nlatissimus : \n\n"],
  [fn |-> "analyzeObliques", fuse |-> TRUE,
   views |-> <<
      [image |-> BACK_IMAGE, prompt |-> <<"estimate the muscle quality number of the obliques on a scale from 0 to 10 for the person in the photo">>,
       label |-> "\n\nBack Photo:\n\n"],
      [image |-> FRONT_IMAGE, prompt |-> <<"estimate the muscle quality number of the obliques on a scale from 0 to 10 for the person in the photo">>,
       label |-> "\n\nFront Photo:\n\n"],
      [image |-> SIDE_IMAGE, prompt |-> <<"estimate the muscle quality number of the obliques on a scale from 0 to 10 for the person in the photo">>,
       label |-> "\n\nSide Photo:\n\n"]>>,
   prompt2 |-> "integrate these descriptions to estimate an overall muscle quality number of the obliques on a scale from 0 to 10 for the person.",
   header |-> "\n\nobliques : \n\n"],
  [fn |-> "analyzeKineticChain", fuse |-> TRUE,
   views |-> <<
      [image |-> BACK_IMAGE, prompt |-> <<"estimate the kinetic chain number on a scale from 0 to 10 for the person in the photo">>,
       label |-> "\n\nBack Photo:\n\n"],
      [image |-> FRONT_IMAGE, prompt |-> <<"estimate the kinetic chain number on a scale from 0 to 10 for the person in the photo">>,
       label |-> "\n\nFront Photo:\n\n"],
      [image |-> SIDE_IMAGE, prompt |-> <<"estimate the kinetic chain number on a scale from 0 to 10 for the person in the photo">>,
       label |-> "\n\nSide Photo:\n\n"]>>,
   prompt2 |-> "integrate these descriptions to estimate an overall kinetic chain number on a scale from 0 to 10 for the person.",
   header |-> "\n\nkinetic chain : \n\n"],
  [fn |-> "analyzeTriceps", fuse |-> TRUE,
   views |-> <<
      [image |-> BACK_IMAGE, prompt |-> <<"estimate the muscle quality number of the triceps on a scale from 0 to 10 for the person in the photo">>,
       label |-> "\n\nBack Photo:\n\n"],
      [image |-> SIDE_IMAGE, prompt |-> <<"estimate the muscle quality number of the triceps on a scale from 0 to 10 for the person in the photo">>,
       label |-> "\n\nSide Photo:\n\n"]>>,
   prompt2 |-> "integrate these descriptions to estimate an overall muscle quality number of the triceps on a scale from 0 to 10 for the person.",
   header |-> "\n\ntriceps : \n\n"],
  [fn |-> "analyzeBiceps", fuse |-> TRUE,
   views |-> <<
      [image |-> FRONT_IMAGE, prompt |-> <<"estimate the muscle quality number of the biceps on a scale from 0 to 10 for the person in the photo">>,
       label |-> "\n\nFront Photo:\n\n"],
      [image |-> SIDE_IMAGE, prompt |-> <<"estimate the muscle quality number of the biceps on a scale from 0 to 10 for the person in the photo">>,
       label |-> "\n\nSide Photo:\n\n"]>>,
   prompt2 |-> "integrate these descriptions to estimate an overall muscle quality number of the biceps on a scale from 0 to 10 for the person.",
   header |-> "\n\nbiceps : \n\n"],
  [fn |-> "analyzeFrontShoulders", fuse |-> TRUE,
   views |-> <<
      [image |-> FRONT_IMAGE, prompt |-> <<"estimate the muscle quality number of the front shoulders on a scale from 0 to 10 for the person in the photo">>,
       label |-> "\n\nFront Photo:\n\n"],
      [image |-> SIDE_IMAGE, prompt |-> <<"estimate the muscle quality number of the front shoulders on a scale from 0 to 10 for the person in the photo">>,
       label |-> "\n\nSide Photo:\n\n"]>>,
   prompt2 |-> "integrate these descriptions to estimate an overall muscle quality number of the front shoulders on a scale from 0 to 10 for the person.",
   header |-> "\n\nfront shoulders : \n\n"],
  [fn |-> "analyzeBackShoulders", fuse |-> TRUE,
   views |-> <<
      [image |-> BACK_IMAGE, prompt |-> <<"estimate the muscle quality number of the rear shoulders on a scale from 0 to 10 for the person in the photo">>,
       label |-> "\n\nBack Photo:\n\n"],
      [image |-> SIDE_IMAGE, prompt |-> <<"estimate the muscle quality number of the rear shoulders on a scale from 0 to 10 for the person in the photo">>,
       label |-> "\n\nSide Photo:\n\n"]>>,
   prompt2 |-> "integrate these descriptions to estimate an overall muscle quality number of the rear shoulders on a scale from 0 to 10 for the person.",
   header |-> "\n\nrear shoulders : \n\n"],
  [fn |-> "analyzePosture", fuse |-> TRUE,
   views |-> <<
      [image |-> BACK_IMAGE, prompt |-> <<"estimate a posture quality number on a scale from 0 to 10 for the person in the photo">>,
       label |-> "\n\nBack Photo:\n\n"],
      [image |-> FRONT_IMAGE, prompt |-> <<"estimate a posture quality number on a scale from 0 to 10 for the person in the photo">>,
       label |-> "\n\nFront Photo:\n\n"],
      [image |-> SIDE_IMAGE, prompt |-> <<"estimate a posture quality number on a scale from 0 to 10 for the person in the photo">>,
       label |-> "\n\nSide Photo:\n\n"]>>,
   prompt2 |-> "integrate these descriptions to estimate an overall posture quality number on a scale from 0 to 10 for the person.",
   header |-> "\n\nposture : \n\n"],
  [fn |-> "analyzeOuterChest", fuse |-> TRUE,
   views |-> <<
      [image |-> FRONT_IMAGE, prompt |-> <<"estimate the muscle quality number of the outer chest on a scale from 0 to 10 for the person in the photo">>,
       label |-> "\n\nFront Photo:\n\n"],
      [image |-> SIDE_IMAGE, prompt |-> <<"estimate the muscle quality number of the outer chest on a scale from 0 to 10 for the person in the photo">>,
       label |-> "\n\nSide Photo:\n\n"]>>,
   prompt2 |-> "integrate these descriptions to estimate an overall muscle quality number of the outer chest on a scale from 0 to 10 for the person.",
   header |-> "\n\nouter chest : \n\n"],
  [fn |-> "analyzeUpperLowerSymmetry", fuse |-> TRUE,
   views |-> <<
      [image |-> BACK_IMAGE, prompt |-> <<"estimate a quality number for symmetry of upper body versus lower body development on a scale from 0 to 10 for the person in the photo">>,
       label |-> "\n\nBack Photo:\n\n"],
      [image |-> FRONT_IMAGE, prompt |-> <<"estimate a quality number for symmetry of upper body versus lower body development on a scale from 0 to 10 for the person in the photo">>,
       label |-> "\n\nFront Photo:\n\n"],
      [image |-> SIDE_IMAGE, prompt |-> <<"estimate a quality number for symmetry of upper body versus lower body development on a scale from 0 to 10 for the person in the photo">>,
       label |-> "\n\nSide Photo:\n\n"]>>,
   prompt2 |-> "integrate these descriptions to estimate an overall quality number for symmetry of upper body versus lower body development on a scale from 0 to 10 for the person.",
   header |-> "\n\nupper body versus lower body symmetry : \n\n"],
  [fn |-> "analyzeLeftRightSymmetry", fuse |-> TRUE,
   views |-> <<
      [image |-> BACK_IMAGE, prompt |-> <<"estimate a quality number for symmetry of left-side versus right-side body development on a scale from 0 to 10 for the person in the photo">>,
       label |-> "\n\nBack Photo:\n\n"],
      [image |-> FRONT_IMAGE, prompt |-> <<"estimate a quality number for symmetry of left-side versus right-side body development on a scale from 0 to 10 for the person in the photo">>,
       label |-> "\n\nFront Photo:\n\n"]>>,
   prompt2 |-> "integrate these descriptions to estimate an overall quality number for symmetry of left-side versus right-side body development on a scale from 0 to 10 for the person.",
   header |-> "\n\nleft versus right body symmetry : \n\n"],
  [fn |-> "analyzeInnerChest", fuse |-> FALSE,
   views |-> <<
      [image |-> FRONT_IMAGE, prompt |-> <<"estimate the muscle quality number of the inner chest on a scale from 0 to 10 for the person in the photo">>,
       label |-> ""]>>,
   prompt2 |-> "",
   header |-> "\n\ninner chest : \n\n"],
  [fn |-> "analyzeUpperBack", fuse |-> FALSE,
   views |-> <<
      [image |-> BACK_IMAGE, prompt |-> <<"estimate the muscle quality number of the upper back on a scale from 0 to 10 for the person in the photo">>,
       label |-> ""]>>,
   prompt2 |-> "",
   header |-> "\n\nupper back : \n\n"]
>>

TXT_SUMMARY == <<"6", "/", "1", "0">>

\* what the source may answer to the fusion request of a category evaluator
SummaryAnswers == [nominal |-> {TXT_SUMMARY}, deviant |-> {}]

\* the value of a function that ends without a return statement
None == "None"

CategoryIndex(fn) == CHOOSE i \in DOMAIN Categories : Categories[i].fn = fn

CategoryFrame(fn) ==
  [fn |-> fn, cat |-> CategoryIndex(fn), pc |-> "rate",
   quality |-> <<>>,          \* quality_back / quality_front / quality_side
   quality_overall |-> <<>>,
   fusers |-> 0, fusions |-> 0]

\* prompt2 of a category evaluator (e.g. line 322)
RECURSIVE Labelled(_, _, _)
Labelled(views, quality, n) ==
  IF n = 0 THEN <<>>
  ELSE Labelled(views, quality, n - 1) \o <<views[n].label>> \o quality[n]

CategoryPrompt2(c, quality) ==
  <<c.prompt2>> \o Labelled(c.views, quality, Len(c.views))

\* variant: the text appended is the first view's rating, not the summary
CategoryEntryFirstView(c, quality, quality_overall) ==
  <<c.header>> \o quality[1]

\* variant: the text appended without the header of the category
CategoryEntryNoHeader(c, quality, quality_overall) == quality_overall

\* the text a category evaluator appends to overPrompt (e.g. line 330)
CategoryEntry(c, quality, quality_overall) ==
  <<c.header>> \o quality_overall

InCategory == Running /\ "cat" \in DOMAIN Top

(***************************************************************************)
(* overallRun (lines 1086-1114): the calls it makes, in order.             *)
(***************************************************************************)
\* variant: analyzeOverall called before the last evaluator
overallRun_calls_early ==
  <<"analyzeCardiovascularConditioning", "analyzeNeckAndTraps",
    "analyzeUpperChest", "analyzeLowerChest", "analyzeUpperAbdominals",
    "analyzeLowerAbdominals", "analyzeQuadriceps", "analyzeCalves",
    "analyzeHamstrings", "analyzeLatissimus", "analyzeObliques",
    "analyzeKineticChain", "analyzeTriceps", "analyzeBiceps",
    "analyzeFrontShoulders", "analyzeBackShoulders", "analyzePosture",
    "analyzeOuterChest", "analyzeUpperLowerSymmetry",
    "analyzeLeftRightSymmetry", "analyzeInnerChest", "analyzeOverall",
    "analyzeUpperBack">>

\* variant: two evaluators called in the other order
overallRun_calls_swapped ==
  <<"analyzeNeckAndTraps", "analyzeCardiovascularConditioning",
    "analyzeUpperChest", "analyzeLowerChest", "analyzeUpperAbdominals",
    "analyzeLowerAbdominals", "analyzeQuadriceps", "analyzeCalves",
    "analyzeHamstrings", "analyzeLatissimus", "analyzeObliques",
    "analyzeKineticChain", "analyzeTriceps", "analyzeBiceps",
    "analyzeFrontShoulders", "analyzeBackShoulders", "analyzePosture",
    "analyzeOuterChest", "analyzeUpperLowerSymmetry",
    "analyzeLeftRightSymmetry", "analyzeInnerChest", "analyzeUpperBack",
    "analyzeOverall">>

\* variant: line 1114, the call of analyzeOverall, left out
overallRun_calls_evaluators_only ==
  <<"analyzeCardiovascularConditioning", "analyzeNeckAndTraps",
    "analyzeUpperChest", "analyzeLowerChest", "analyzeUpperAbdominals",
    "analyzeLowerAbdominals", "analyzeQuadriceps", "analyzeCalves",
    "analyzeHamstrings", "analyzeLatissimus", "analyzeObliques",
    "analyzeKineticChain", "analyzeTriceps", "analyzeBiceps",
    "analyzeFrontShoulders", "analyzeBackShoulders", "analyzePosture",
    "analyzeOuterChest", "analyzeUpperLowerSymmetry",
    "analyzeLeftRightSymmetry", "analyzeInnerChest", "analyzeUpperBack">>

overallRun_calls ==
  <<"analyzeCardiovascularConditioning", "analyzeNeckAndTraps",
    "analyzeUpperChest", "analyzeLowerChest", "analyzeUpperAbdominals",
    "analyzeLowerAbdominals", "analyzeQuadriceps", "analyzeCalves",
    "analyzeHamstrings", "analyzeLatissimus", "analyzeObliques",
    "analyzeKineticChain", "analyzeTriceps", "analyzeBiceps",
    "analyzeFrontShoulders", "analyzeBackShoulders", "analyzePosture",
    "analyzeOuterChest", "analyzeUpperLowerSymmetry",
    "analyzeLeftRightSymmetry", "analyzeInnerChest", "analyzeUpperBack",
    "analyzeOverall">>

RunFrame == [fn |-> "overallRun", next |-> 1]

InRun == Running /\ Top.fn = "overallRun"

(***************************************************************************)
(* srchExerciseEntries (lines 964-981) and analyzeOverall (lines 991-1073).*)
(***************************************************************************)
YES_UPPER == <<"Y", "e", "s">>
YES_LOWER == <<"y", "e", "s">>
AFFIRMATIVE_LOWER == <<"a", "f", "f", "i", "r", "m", "a", "t", "i", "v", "e">>
AFFIRMATIVE_UPPER == <<"A", "f", "f", "i", "r", "m", "a", "t", "i", "v", "e">>

TXT_NO == <<"N", "o">>
TXT_AREAS == <<"l", "e", "g", "s", " ", "3">>
TXT_AFFIRMATIONS == <<"I", " ", "c", "a", "n">>
TXT_PLAN == <<"p", "l", "a", "n">>
TXT_PLAN_B == <<"p", "l", "a", "n", " ", "B">>

\* what the source may answer to the requests of analyzeOverall
YesNoAnswers ==
  [nominal |-> {TXT_NO},
   deviant |-> {YES_UPPER \o <<".">>, <<"O", "h", " ">> \o YES_LOWER,
                AFFIRMATIVE_LOWER, AFFIRMATIVE_UPPER}]
RankingAnswers == [nominal |-> {TXT_AREAS}, deviant |-> {PHRASE_NOT_TO_JUDGE}]
AffirmationAnswers == [nominal |-> {TXT_AFFIRMATIONS}, deviant |-> {<<>>}]
WorkoutAnswers == [nominal |-> {TXT_PLAN}, deviant |-> {PHRASE_INAPPROPRIATE}]
RewriteAnswers == [nominal |-> {TXT_PLAN_B}, deviant |-> {TXT_PLAN}]

\* lines 1015-1040: the three inSet values, in the order they are searched
Families ==
  <<{"Hanging Leg Lifts", "Hanging Toes-To_Bar Leg Lifts"},
    {"Standard Push-Ups", "One-Arm Push-Ups"},
    {"Pull-Ups", "Chin-Ups", "Assisted One-Arm Pull-Ups"}>>

\* line 977: does the answer count as a yes
Affirms(yesNo) ==
  \/ Contains(YES_UPPER, yesNo)
  \/ Contains(YES_LOWER, yesNo)
  \/ Contains(AFFIRMATIVE_LOWER, yesNo)
  \/ Contains(AFFIRMATIVE_UPPER, yesNo)

\* line 970
SearchPrompt(item, inWork) ==
  <<"Is the following exercise already in the workout below: ", item,
    "?  Please answer yes or no.\n\n">> \o inWork

\* variant: `found` overwritten by each answer instead of accumulated
FoundAfterLastOnly(found, yesNo) == Affirms(yesNo)

\* line 977: the new value of `found`
FoundAfter(found, yesNo) == found \/ Affirms(yesNo)

\* variant: `found` kept from the family searched before
SearchOutListSticky(found, inList, outList) ==
  IF found \/ outList # {} THEN outList \cup inList ELSE outList

\* variant: the family added whether or not a member was found
SearchOutListAlways(found, inList, outList) == outList \cup inList

\* lines 979-981: outList when the function ends
SearchOutList(found, inList, outList) ==
  IF found THEN outList \cup inList ELSE outList

\* variant: the for loop left after its first item
SearchFrameFirstOnly(inWork, inList, outList) ==
  [fn |-> "srchExerciseEntries", inWork |-> inWork, inList |-> inList,
   outList |-> outList, found |-> FALSE,
   todo |-> {CHOOSE item \in inList : TRUE}, matched |-> {}]

SearchFrame(inWork, inList, outList) ==
  [fn |-> "srchExerciseEntries", inWork |-> inWork, inList |-> inList,
   outList |-> outList,
   found |-> FALSE,                                        \* line 966
   todo |-> inList,       \* the items the for loop has still to visit
   matched |-> {}]        \* history: the items whose answer counted as yes

InSearch == Running /\ Top.fn = "srchExerciseEntries"

\* history field `matched` of a frame
MarkMatched(s, item, yes) ==
  [i \in DOMAIN s |->
     IF yes /\ "matched" \in DOMAIN s[i]
       THEN [s[i] EXCEPT !.matched = @ \cup {item}] ELSE s[i]]

RANKING_PROMPT == "summarize the four categories listed below with the lowest numerical ratings. ... address the lagging area.\n\n"
AFFIRMATION_PROMPT == "you are the mindfulness coach for the athlete described below. ... in the following lagging areas:\n\n"
WORKOUT_PROMPT == "generate a set of customized workouts for an athlete to address the following lagging areas:\n\n"

\* lines 1053-1062; the exercises are listed in the iteration order of a
\* Python set, which is not fixed: the list is kept as the set itself
REWRITE_PROMPT == "The athelete is already doing the following exercises: "

RewritePrompt(outSet, overall_work) ==
  <<REWRITE_PROMPT, outSet,
    ".  Rewrite the workout below ... Replace exercises in the following workout:\n\n">>
  \o overall_work

\* variant: analyzeOverall without its ranking request
OverallFrameNoRanking ==
  [fn |-> "analyzeOverall", pc |-> "1001",
   overall_areas |-> <<>>, affirmations |-> <<>>, overall_work |-> <<>>,
   outSet |-> {}, family |-> 1, matched |-> {}]

OverallFrame ==
  [fn |-> "analyzeOverall", pc |-> "994",
   overall_areas |-> <<>>, affirmations |-> <<>>, overall_work |-> <<>>,
   outSet |-> {}, family |-> 1,
   matched |-> {}]        \* history: the items whose answer counted as yes

InOverall == Running /\ Top.fn = "analyzeOverall"

\* variant: FinalWorkout.txt opened for writing with every file written
WriteFileOpensFinal(name, text) ==
  (name :> text) @@ ("FinalWorkout.txt" :> <<>>) @@ files

\* open(name, "w") and f.write(text): the file holds exactly the text
WriteFile(name, text) == (name :> text) @@ files

(***************************************************************************)
(* Return of a call: the caller's frame takes the value and moves on.      *)
(***************************************************************************)
Resume(caller, v) ==
  CASE caller.fn = "analyze_image_rating" ->
         [caller EXCEPT !.quality = Append(@, v), !.pc = AfterAcquire(@)]
    [] "cat" \in DOMAIN caller ->
         [caller EXCEPT
            !.quality = Append(@, v),
            !.pc = IF Len(caller.quality) + 1 = Len(Categories[caller.cat].views)
                     THEN "fuse" ELSE "rate"]
    [] caller.fn = "overallRun" ->
         [caller EXCEPT !.next = @ + 1]
    [] caller.fn = "analyzeOverall" /\ caller.pc = "1015" ->
         [caller EXCEPT
            !.outSet = v, !.family = @ + 1,
            !.pc = IF caller.family = Len(Families) THEN "1052" ELSE "1015"]

Return(v) ==
  /\ stack' = IF Len(stack) = 1 THEN <<>>
              ELSE SubSeq(stack, 1, Len(stack) - 2)
                   \o <<Resume(stack[Len(stack) - 1], v)>>
  /\ result' = IF Len(stack) = 1 THEN <<v>> ELSE result

(***************************************************************************)
(* Steps of analyze_image_rating_internal.                                 *)
(***************************************************************************)
\* lines 163-166: the first request
AcquirerFirst ==
  /\ InAcquirer /\ Top.pc = "163"
  /\ \E r \in OpinionSource(RatingAnswers) :
       /\ Post(analyze_image_internal_payload(Top.image_path, Top.prompt), r, FALSE)
       /\ IF r.kind = "unreachable" THEN Raise
          ELSE LET desc == response_text(r) IN
               /\ stack' = CountRequest(Callers) \o
                    <<[Top EXCEPT !.desc = desc, !.count = 0,
                                  !.found = Invalid(desc),
                                  !.reqs = @ + 1, !.pc = "167"]>>
               /\ UNCHANGED <<overPrompt, files, result, aborted>>

\* lines 167-171: one iteration of the while loop
AcquirerRetry ==
  /\ InAcquirer /\ Top.pc = "167"
  /\ LoopGuard(Top.found, Top.count)
  /\ \E r \in OpinionSource(RatingAnswers) :
       /\ Post(analyze_image_internal_payload(Top.image_path, Top.prompt), r, FALSE)
       /\ IF r.kind = "unreachable" THEN Raise
          ELSE LET desc == response_text(r) IN
               /\ stack' = CountRequest(Callers) \o
                    <<[Top EXCEPT !.desc = desc, !.found = Invalid(desc),
                                  !.count = @ + 1, !.reqs = @ + 1]>>
               /\ UNCHANGED <<overPrompt, files, result, aborted>>

\* line 172
AcquirerReturn ==
  /\ InAcquirer /\ Top.pc = "167"
  /\ ~LoopGuard(Top.found, Top.count)
  /\ Return(Top.desc)
  /\ UNCHANGED <<overPrompt, files, aborted, exchange>>

(***************************************************************************)
(* Steps of analyze_image_rating.                                          *)
(***************************************************************************)
\* lines 193, 195, 197: call analyze_image_rating_internal
FuserAcquire ==
  /\ InFuser /\ Top.pc \in {"193", "195", "197"}
  /\ stack' = Callers \o <<[Top EXCEPT !.acqs = @ + 1]>>
              \o <<AcquirerFrame(Top.image_path, Top.prompt)>>
  /\ UNCHANGED <<overPrompt, files, result, aborted, exchange>>

\* lines 199-201: the fusion request
FuserFusion ==
  /\ InFuser /\ Top.pc = "199"
  /\ \E r \in OpinionSource(FusionAnswers) :
       /\ Post(send_prompt_payload(FuserPrompt2(Top.quality)), r, FALSE)
       /\ IF r.kind = "unreachable" THEN Raise
          ELSE /\ stack' = CountRequest(Callers) \o
                    <<[Top EXCEPT !.quality_overall = response_text(r),
                                  !.reqs = @ + 1, !.fusions = @ + 1,
                                  !.pc = "203"]>>
               /\ UNCHANGED <<overPrompt, files, result, aborted>>

\* line 203
FuserReturn ==
  /\ InFuser /\ Top.pc = "203"
  /\ Return(Top.quality_overall)
  /\ UNCHANGED <<overPrompt, files, aborted, exchange>>

(***************************************************************************)
(* Steps of a category evaluator.                                          *)
(***************************************************************************)
\* e.g. lines 308, 313, 318: call analyze_image_rating for the next view
CategoryRate ==
  /\ InCategory /\ Top.pc = "rate"
  /\ LET view == Categories[Top.cat].views[Len(Top.quality) + 1] IN
       stack' = Callers \o <<[Top EXCEPT !.fusers = @ + 1]>>
                \o <<FuserFrame(view.image, view.prompt)>>
  /\ UNCHANGED <<overPrompt, files, result, aborted, exchange>>

\* e.g. lines 322-325: the fusion request of the category
CategoryFuse ==
  /\ InCategory /\ Top.pc = "fuse"
  /\ Categories[Top.cat].fuse
  /\ \E r \in OpinionSource(SummaryAnswers) :
       /\ Post(send_prompt_payload(
                 CategoryPrompt2(Categories[Top.cat], Top.quality)), r, FALSE)
       /\ IF r.kind = "unreachable" THEN Raise
          ELSE /\ stack' = CountRequest(Callers) \o
                    <<[Top EXCEPT !.quality_overall = response_text(r),
                                  !.fusions = @ + 1, !.pc = "append"]>>
               /\ UNCHANGED <<overPrompt, files, result, aborted>>

\* lines 927 and 948: quality_overall = quality_front (quality_back)
CategoryCopy ==
  /\ InCategory /\ Top.pc = "fuse"
  /\ ~Categories[Top.cat].fuse
  /\ stack' = Callers \o
       <<[Top EXCEPT !.quality_overall = Top.quality[1], !.pc = "append"]>>
  /\ UNCHANGED <<overPrompt, files, result, aborted, exchange>>

\* e.g. lines 329-330: append to overPrompt, and return
CategoryAppend ==
  /\ InCategory /\ Top.pc = "append"
  /\ overPrompt' = overPrompt \o
       CategoryEntry(Categories[Top.cat], Top.quality, Top.quality_overall)
  /\ Return(None)
  /\ UNCHANGED <<files, aborted, exchange>>

(***************************************************************************)
(* Steps of overallRun.                                                    *)
(***************************************************************************)
\* lines 1091-1112: call the next category evaluator
RunCategory ==
  /\ InRun /\ Top.next <= Len(overallRun_calls)
  /\ overallRun_calls[Top.next] # "analyzeOverall"
  /\ stack' = stack \o <<CategoryFrame(overallRun_calls[Top.next])>>
  /\ UNCHANGED <<overPrompt, files, result, aborted, exchange>>

\* the end of overallRun
RunReturn ==
  /\ InRun /\ Top.next > Len(overallRun_calls)
  /\ Return(None)
  /\ UNCHANGED <<overPrompt, files, aborted, exchange>>

\* line 1114: call analyzeOverall
RunOverall ==
  /\ InRun /\ Top.next <= Len(overallRun_calls)
  /\ overallRun_calls[Top.next] = "analyzeOverall"
  /\ stack' = stack \o <<OverallFrame>>
  /\ UNCHANGED <<overPrompt, files, result, aborted, exchange>>

(***************************************************************************)
(* Steps of analyzeOverall.                                                *)
(***************************************************************************)
\* lines 993-997: the ranking request
OverallRanking ==
  /\ InOverall /\ Top.pc = "994"
  /\ \E r \in OpinionSource(RankingAnswers) :
       /\ Post(send_prompt_payload(<<RANKING_PROMPT>> \o overPrompt), r, TRUE)
       /\ IF r.kind = "unreachable" THEN Raise
          ELSE /\ stack' = CountRequest(Callers) \o
                    <<[Top EXCEPT !.overall_areas = response_text(r),
                                  !.pc = "1001"]>>
               /\ UNCHANGED <<overPrompt, files, result, aborted>>

\* lines 1001-1006: the affirmation request, written to Affirmations.txt
OverallAffirmations ==
  /\ InOverall /\ Top.pc = "1001"
  /\ \E r \in OpinionSource(AffirmationAnswers) :
       /\ Post(send_prompt_gpt_oss_payload(
                 <<AFFIRMATION_PROMPT>> \o Top.overall_areas), r, FALSE)
       /\ IF r.kind = "unreachable" THEN Raise
          ELSE /\ stack' = CountRequest(Callers) \o
                    <<[Top EXCEPT !.affirmations = response_text(r),
                                  !.pc = "1008"]>>
               /\ files' = WriteFile("Affirmations.txt", response_text(r))
               /\ UNCHANGED <<overPrompt, result, aborted>>

\* lines 1008-1016: the workout request
OverallWorkout ==
  /\ InOverall /\ Top.pc = "1008"
  /\ \E r \in OpinionSource(WorkoutAnswers) :
       /\ Post(send_prompt_gpt_oss_payload(
                 <<WORKOUT_PROMPT>> \o Top.overall_areas), r, FALSE)
       /\ IF r.kind = "unreachable" THEN Raise
          ELSE /\ stack' = CountRequest(Callers) \o
                    <<[Top EXCEPT !.overall_work = response_text(r),
                                  !.outSet = {}, !.pc = "1015"]>>
               /\ UNCHANGED <<overPrompt, files, result, aborted>>

\* lines 1018-1022, 1024-1030, 1032-1040: call srchExerciseEntries
OverallSearch ==
  /\ InOverall /\ Top.pc = "1015"
  /\ stack' = stack \o
       <<SearchFrame(Top.overall_work, Families[Top.family], Top.outSet)>>
  /\ UNCHANGED <<overPrompt, files, result, aborted, exchange>>

\* lines 1052-1069: the rewrite request, written to FinalWorkout.txt
OverallRewrite ==
  /\ InOverall /\ Top.pc = "1052"
  /\ Cardinality(Top.outSet) > 0
  /\ \E r \in OpinionSource(RewriteAnswers) :
       /\ Post(send_prompt_gpt_oss_payload(
                 RewritePrompt(Top.outSet, Top.overall_work)), r, FALSE)
       /\ IF r.kind = "unreachable" THEN Raise
          ELSE /\ files' = WriteFile("FinalWorkout.txt", response_text(r))
               /\ Return(None)
               /\ UNCHANGED <<overPrompt, aborted>>

\* lines 1070-1073: the workout written to FinalWorkout.txt as it is
OverallCopy ==
  /\ InOverall /\ Top.pc = "1052"
  /\ ~(Cardinality(Top.outSet) > 0)
  /\ files' = WriteFile("FinalWorkout.txt", Top.overall_work)
  /\ Return(None)
  /\ UNCHANGED <<overPrompt, aborted, exchange>>

(***************************************************************************)
(* Steps of srchExerciseEntries.                                           *)
(***************************************************************************)
\* lines 968-977: one iteration of the for loop over the set inList
SearchQuery ==
  /\ InSearch /\ Top.todo # {}
  /\ \E item \in Top.todo, r \in OpinionSource(YesNoAnswers) :
       /\ Post(send_prompt_payload(SearchPrompt(item, Top.inWork)), r, FALSE)
       /\ IF r.kind = "unreachable" THEN Raise
          ELSE LET yesNo == response_text(r) IN
               /\ stack' = MarkMatched(
                    CountRequest(Callers) \o
                      <<[Top EXCEPT !.found = FoundAfter(@, yesNo),
                                    !.todo = @ \ {item}]>>,
                    item, Affirms(yesNo))
               /\ UNCHANGED <<overPrompt, files, result, aborted>>

\* lines 979-981: the family is added to outList if found
SearchReturn ==
  /\ InSearch /\ Top.todo = {}
  /\ Return(SearchOutList(Top.found, Top.inList, Top.outList))
  /\ UNCHANGED <<overPrompt, files, aborted, exchange>>

(***************************************************************************)
(* Specifications.                                                         *)
(***************************************************************************)
Images == {BACK_IMAGE, FRONT_IMAGE, SIDE_IMAGE}

\* two of the rating prompts of the category evaluators (lines 305, 342)
PROMPT_CARDIO == <<"estimate the cardiovascular conditioning number on a scale from 0 to 10 for the person in the photo">>
PROMPT_NECK_FRONT == <<"estimate the muscle quality number of the neck on a scale from 0 to 10 for the person in the photo">>

InitProcess ==
  /\ overPrompt = <<>>
  /\ files = <<>>
  /\ result = <<>>
  /\ aborted = FALSE
  /\ lastReq = NoRequest
  /\ lastReply = NoReply
  /\ transcriptSent = 0
  /\ requests = 0

\* one call analyze_image_rating_internal(image_path, prompt)
InitAcquirer ==
  /\ InitProcess
  /\ \E image_path \in Images, inPrompt \in {PROMPT_CARDIO, PROMPT_NECK_FRONT} :
       stack = <<AcquirerFrame(image_path, inPrompt \o PROMPT_ENGINEERING_RATING)>>
  /\ deviationsLeft = MaxRetries + 1
  /\ failuresLeft = MaxCallFailures

NextAcquirer == AcquirerFirst \/ AcquirerRetry \/ AcquirerReturn

SpecAcquirer == InitAcquirer /\ [][NextAcquirer]_vars

\* one call analyze_image_rating(image_path, inPrompt)
InitFuser ==
  /\ InitProcess
  /\ \E image_path \in {FRONT_IMAGE}, inPrompt \in {PROMPT_CARDIO, PROMPT_NECK_FRONT} :
       stack = <<FuserFrame(image_path, inPrompt)>>
  /\ deviationsLeft = 3 * (MaxRetries + 1)
  /\ failuresLeft = MaxCallFailures

NextFuser ==
  \/ FuserAcquire \/ FuserFusion \/ FuserReturn
  \/ AcquirerFirst \/ AcquirerRetry \/ AcquirerReturn

SpecFuser == InitFuser /\ [][NextFuser]_vars

\* one call of a category evaluator: one of each shape of evaluator (three
\* views, front and side, back and side, back and front, front only, back
\* only)
HarnessEvaluators ==
  {"analyzeCardiovascularConditioning", "analyzeUpperChest", "analyzeCalves",
   "analyzeLeftRightSymmetry", "analyzeInnerChest", "analyzeUpperBack"}

InitCategory ==
  /\ InitProcess
  /\ \E fn \in HarnessEvaluators : stack = <<CategoryFrame(fn)>>
  /\ deviationsLeft = MaxRetries + 1
  /\ failuresLeft = MaxCallFailures

NextCategory ==
  \/ CategoryRate \/ CategoryFuse \/ CategoryCopy \/ CategoryAppend
  \/ FuserAcquire \/ FuserFusion \/ FuserReturn
  \/ AcquirerFirst \/ AcquirerRetry \/ AcquirerReturn

SpecCategory == InitCategory /\ [][NextCategory]_vars

\* overPrompt after the first n calls of overallRun, given the text each
\* evaluator appended
RECURSIVE Transcript(_, _)
Transcript(n, text) ==
  IF n = 0 THEN <<>>
  ELSE Transcript(n - 1, text)
       \o <<Categories[CategoryIndex(overallRun_calls[n])].header>> \o text[n]

NominalTexts ==
  [n \in 1..(Len(overallRun_calls) - 1) |->
     IF Categories[CategoryIndex(overallRun_calls[n])].fuse
       THEN TXT_SUMMARY ELSE TXT_FUSED]

RECURSIVE SumOfSizes(_, _)
SumOfSizes(sets, n) ==
  IF n = 0 THEN 0 ELSE SumOfSizes(sets, n - 1) + Cardinality(sets[n])

\* one call analyzeOverall(), after the evaluators have filled overPrompt
InitOverall ==
  /\ InitProcess!2 /\ InitProcess!3 /\ InitProcess!4 /\ InitProcess!5
  /\ InitProcess!6 /\ InitProcess!7 /\ InitProcess!8
  /\ overPrompt \in
       {Transcript(Len(overallRun_calls) - 1, NominalTexts),
        Transcript(Len(overallRun_calls) - 1,
                   [NominalTexts EXCEPT ![3] = TXT_NOT_TO_JUDGE_4])}
  /\ stack = <<OverallFrame>>
  /\ deviationsLeft = SumOfSizes(Families, Len(Families)) + 4
  /\ failuresLeft = MaxCallFailures

NextOverall ==
  \/ OverallRanking \/ OverallAffirmations \/ OverallWorkout
  \/ OverallSearch \/ OverallRewrite \/ OverallCopy
  \/ SearchQuery \/ SearchReturn

SpecOverall == InitOverall /\ [][NextOverall]_vars

\* the program: overallRun() called once by __main__ (line 1140)
Init ==
  /\ InitProcess
  /\ stack = <<RunFrame>>
  /\ deviationsLeft = MaxDeviations
  /\ failuresLeft = MaxFailures

Next ==
  \/ RunCategory \/ RunOverall \/ RunReturn
  \/ CategoryRate \/ CategoryFuse \/ CategoryCopy \/ CategoryAppend
  \/ FuserAcquire \/ FuserFusion \/ FuserReturn
  \/ AcquirerFirst \/ AcquirerRetry \/ AcquirerReturn
  \/ OverallRanking \/ OverallAffirmations \/ OverallWorkout
  \/ OverallSearch \/ OverallRewrite \/ OverallCopy
  \/ SearchQuery \/ SearchReturn

Spec == Init /\ [][Next]_vars

\* a later call of overallRun() in a process in which an earlier call has
\* returned: overPrompt and the files are as that call left them
InitRerun ==
  /\ InitProcess!3 /\ InitProcess!4 /\ InitProcess!5 /\ InitProcess!6
  /\ InitProcess!7 /\ InitProcess!8
  /\ overPrompt = Transcript(Len(overallRun_calls) - 1, NominalTexts)
  /\ files \in {("Affirmations.txt" :> TXT_AFFIRMATIONS)
                   @@ ("FinalWorkout.txt" :> text) : text \in {TXT_PLAN, TXT_PLAN_B}}
  /\ stack = <<RunFrame>>
  /\ deviationsLeft = MaxDeviations
  /\ failuresLeft = MaxFailures

SpecRerun == InitRerun /\ [][Next]_vars

\* termination: the whole run with successful replies, some of them other
\* than the expected ones, and one call of analyze_image_rating in which any
\* number of responses may be invalid; the process is one thread that goes
\* on as long as it has a step to take
InitLive ==
  \/ /\ InitProcess
     /\ stack = <<RunFrame>>
     /\ deviationsLeft = MaxDeviations
     /\ failuresLeft = 0
  \/ InitFuser

SpecLive == InitLive /\ [][Next]_vars /\ WF_vars(Next)

(***************************************************************************)
(* Properties.                                                             *)
(***************************************************************************)
AcquirerFrames ==
  {stack[i] : i \in {j \in DOMAIN stack :
                       stack[j].fn = "analyze_image_rating_internal"}}
FuserFrames ==
  {stack[i] : i \in {j \in DOMAIN stack : stack[j].fn = "analyze_image_rating"}}

HasRefusalPhrase(s) == \E phrase \in RefusalPhrases : Contains(phrase, s)

\* the running acquirer issues a request in this step (which the source
\* may fail to answer)
AcquirerRequests ==
  \/ aborted'
  \/ /\ stack' # <<>>
     /\ stack'[Len(stack')].fn = "analyze_image_rating_internal"
     /\ stack'[Len(stack')].reqs = Top.reqs + 1

\* C1: one invocation of analyze_image_rating_internal issues at most 16
\* requests; what it returns is the text of the last response, and when the
\* 16th response is still invalid the next step returns that response and
\* raises no error.
C1_AtMost16 ==
  /\ \A f \in AcquirerFrames :
       /\ f.reqs <= 16
       /\ f.pc = "167" => f.desc = response_text(lastReply) /\ f.reqs = f.count + 1
  /\ result # <<>> => ~aborted /\ result[1] = response_text(lastReply)

C1_ExhaustedStep ==
  (InAcquirer /\ Top.pc = "167" /\ Top.reqs = 16)
     => /\ stack' = <<>>
        /\ result' = <<response_text(lastReply)>>
        /\ ~aborted'
        /\ lastReply' = lastReply

C1_BoundedRetries == [] C1_AtMost16 /\ [][C1_ExhaustedStep]_vars

\* C1 witness: the acquirer has returned a response that is still invalid,
\* which happens only after 16 invalid responses
C1_Witness ==
  /\ result # <<>> /\ ~aborted
  /\ result[1] \in RatingAnswers.deviant
  /\ result[1] = lastReply.response

\* C2: after a response without a digit on an attempt before the 16th, the
\* next step of the acquirer is another request.
C2_NoDigitRetries ==
  [][(InAcquirer /\ Top.pc = "167" /\ ~HasDigit(Top.desc) /\ Top.reqs < 16)
       => AcquirerRequests]_vars

\* C2 witness: a retry has been made and the response has no digit again
C2_Witness ==
  /\ InAcquirer /\ Top.pc = "167"
  /\ Top.reqs >= 2 /\ Top.reqs < 16
  /\ ~HasDigit(Top.desc) /\ ~HasRefusalPhrase(Top.desc)

\* C3: after a response with a refusal phrase on an attempt before the 16th,
\* with or without a digit in it, the next step of the acquirer is another
\* request.
C3_RefusalRetries ==
  [][(InAcquirer /\ Top.pc = "167" /\ HasRefusalPhrase(Top.desc)
        /\ Top.reqs < 16)
       => AcquirerRequests]_vars

\* C3 witness: a retry has been made and the response holds a refusal phrase
\* and a digit
C3_Witness ==
  /\ InAcquirer /\ Top.pc = "167"
  /\ Top.reqs >= 2 /\ Top.reqs < 16
  /\ Contains(PHRASE_NOT_TO_JUDGE, Top.desc) /\ HasDigit(Top.desc)

\* C4: an invocation of analyze_image_rating makes exactly 3 acquirer
\* invocations and then exactly 1 fusion request, whatever the retries.
C4_ThreeAcquisitionsOneFusion ==
  \A f \in FuserFrames :
    /\ f.acqs <= 3 /\ f.fusions <= 1
    /\ f.acqs >= Len(f.quality)
    /\ f.pc = "199" => f.acqs = 3 /\ Len(f.quality) = 3 /\ f.fusions = 0
    /\ f.pc = "203" => f.acqs = 3 /\ f.fusions = 1
    /\ f.fusions = 1 => f.pc = "203"

\* C4 witness: the fuser is about to return after acquisitions with retries
C4_Witness ==
  /\ InFuser /\ Top.pc = "203" /\ Top.acqs = 3 /\ Top.fusions = 1
  /\ Top.reqs > 4 /\ Top.reqs < 49

\* C5, as claimed: an invocation of analyze_image_rating issues exactly 4
\* requests in total.
C5_ExactlyFourRequests ==
  \A f \in FuserFrames : f.pc = "203" => f.reqs = 4

\* C5, amended: it issues between 4 and 49 requests in total, the last of
\* them the fusion request.
C5_FourTo49Requests ==
  \A f \in FuserFrames :
    /\ f.reqs <= 49
    /\ f.pc = "203" => f.reqs >= 4 /\ f.fusions = 1
    /\ f.pc # "203" => f.reqs <= 48 /\ f.fusions = 0

\* C5 witness: the fuser is about to return after 3 * 16 + 1 requests
C5_Witness ==
  InFuser /\ Top.pc = "203" /\ Top.reqs = 49

OverallFrames ==
  {stack[i] : i \in {j \in DOMAIN stack : stack[j].fn = "analyzeOverall"}}

\* the headers of the category evaluators, in the order of the table
ExpectedHeaders == [n \in DOMAIN Categories |-> Categories[n].header]

IsHeader(x) == \E n \in DOMAIN Categories : x = Categories[n].header

\* the headers found in a transcript, in order
Entries(transcript) == SelectSeq(transcript, IsHeader)

IsPrefix(s, t) == Len(s) <= Len(t) /\ SubSeq(t, 1, Len(s)) = s

\* C6: at every moment the entries of overPrompt are the first entries of
\* the list of all categories, in order, and once overallRun has returned
\* they are that whole list: one entry per category, no other entry.
C6_OneEntryPerCategoryInOrder ==
  /\ IsPrefix(Entries(overPrompt), ExpectedHeaders)
  /\ result # <<>> => Entries(overPrompt) = ExpectedHeaders

\* C6 witness: a run has returned in which the source gave answers other
\* than the expected ones (a retry happened)
C6_Witness ==
  /\ result # <<>> /\ ~aborted
  /\ deviationsLeft = 0
  /\ Len(Entries(overPrompt)) = Len(Categories)

\* C7: analyzeOverall runs only on the complete transcript; overPrompt is
\* put into a request at most once, by the ranking request, which is the
\* first request of analyzeOverall.
C7_RankingReadsCompleteTranscriptOnce ==
  /\ transcriptSent <= 1
  /\ \A f \in OverallFrames :
       /\ Entries(overPrompt) = ExpectedHeaders
       /\ f.pc = "994" <=> transcriptSent = 0
  /\ Entries(overPrompt) # ExpectedHeaders
       => transcriptSent = 0 /\ OverallFrames = {}
  /\ result # <<>> => transcriptSent = 1
  /\ transcriptSent = 1 => Entries(overPrompt) = ExpectedHeaders
  /\ (lastReq.prompt # <<>> /\ Head(lastReq.prompt) = RANKING_PROMPT)
       => /\ lastReq.prompt = <<RANKING_PROMPT>> \o overPrompt
          /\ lastReq.model = "llava"
  /\ (lastReq.prompt # <<>>
        /\ Head(lastReq.prompt) \notin {RANKING_PROMPT, REWRITE_PROMPT})
       => Entries(lastReq.prompt) = <<>>

\* C7 witness: the ranking request has just been answered
C7_Witness ==
  /\ InOverall /\ Top.pc = "1001" /\ transcriptSent = 1
  /\ lastReq.prompt = <<RANKING_PROMPT>> \o overPrompt
  /\ Len(Entries(overPrompt)) = Len(Categories)

\* the opinion source answered the last request with a non-success status
NonSuccess(reply) ==
  reply.kind \notin {"", "unreachable"} /\ reply.status_code # HTTP_OK

\* C8, as claimed: a reply with a non-success status aborts the run; its
\* text is never taken as a response.
C8_NonSuccessAborts ==
  NonSuccess(lastReply) =>
    /\ aborted
    /\ \A f \in AcquirerFrames : f.desc # response_text(lastReply)
    /\ result = <<>>

\* the index of the families srchExerciseEntries has returned for
Searched(f) == 1..(f.family - 1)

Flagged(f) == {k \in Searched(f) : Families[k] \cap f.matched # {}}

DraftOf(prompt) == SubSeq(prompt, 4, Len(prompt))

\* the frame of analyzeOverall keeps overall_work from line 1011 on
DraftKept ==
  \A i \in DOMAIN stack \cap DOMAIN stack' :
    (stack[i].fn = "analyzeOverall" /\ stack[i].pc \in {"1015", "1052"}
       /\ stack'[i].fn = "analyzeOverall")
      => stack'[i].overall_work = stack[i].overall_work

\* the workout request: its response is overall_work
DraftIsWorkoutResponse ==
  (InOverall /\ Top.pc = "1008" /\ ~aborted')
    => /\ Head(lastReq'.prompt) = WORKOUT_PROMPT
       /\ stack'[Len(stack')].overall_work = response_text(lastReply')

\* C11: when no redundancy query was answered with a yes, the step after the
\* last query issues no request and writes to FinalWorkout.txt exactly the
\* text the workout request returned; a rewrite request is issued only
\* after some query was answered with a yes.
C11_NoMatchCopiesDraft ==
  [][/\ DraftKept
     /\ DraftIsWorkoutResponse
     /\ (InOverall /\ Top.pc = "1052" /\ Top.matched = {})
          => /\ requests' = requests
             /\ ~aborted'
             /\ Len(stack') = Len(stack) - 1
             /\ files'["FinalWorkout.txt"] = Top.overall_work
     /\ (requests' # requests /\ Head(lastReq'.prompt) = REWRITE_PROMPT)
          => InOverall /\ Top.pc = "1052" /\ Top.matched # {}
     /\ ("FinalWorkout.txt" \notin DOMAIN files
           /\ "FinalWorkout.txt" \in DOMAIN files')
          => InOverall /\ Top.pc = "1052"]_vars

\* C11 witness: analyzeOverall has returned after 3 requests and 7 queries,
\* the last answered No, and FinalWorkout.txt holds the workout the queries
\* were about
C11_Witness ==
  /\ result # <<>> /\ ~aborted
  /\ requests = 3 + SumOfSizes(Families, Len(Families))
  /\ lastReply.response = TXT_NO
  /\ lastReq.model = "llava"
  /\ files["FinalWorkout.txt"] = DraftOf(lastReq.prompt)
  /\ files["FinalWorkout.txt"] = TXT_PLAN

\* C12, as claimed: when the query for "Hanging Leg Lifts" was answered with
\* a yes, the step after the last query is the rewrite request and the text
\* written to FinalWorkout.txt differs from the workout text.
C12_RewriteDiffersFromDraft ==
  [][(InOverall /\ Top.pc = "1052" /\ "Hanging Leg Lifts" \in Top.matched)
       => /\ requests' = requests + 1
          /\ lastReq' = send_prompt_gpt_oss_payload(
                          RewritePrompt(Top.outSet, Top.overall_work))
          /\ ~aborted' => files'["FinalWorkout.txt"] # Top.overall_work]_vars

\* C12, amended: in that case the step after the last query is one rewrite
\* request to gpt-oss that lists "Hanging Leg Lifts", and the text written
\* to FinalWorkout.txt is the response to it, as it is.
C12_RewritePathTaken ==
  [][(InOverall /\ Top.pc = "1052" /\ "Hanging Leg Lifts" \in Top.matched)
       => /\ requests' = requests + 1
          /\ "Hanging Leg Lifts" \in Top.outSet
          /\ lastReq' = send_prompt_gpt_oss_payload(
                          RewritePrompt(Top.outSet, Top.overall_work))
          /\ ~aborted' =>
               /\ Len(stack') = Len(stack) - 1
               /\ files'["FinalWorkout.txt"] = response_text(lastReply')]_vars

\* C12 witness: analyzeOverall has returned after a rewrite request that
\* listed "Hanging Leg Lifts", and the text it wrote equals the workout text
C12_Witness ==
  /\ result # <<>> /\ ~aborted
  /\ Head(lastReq.prompt) = REWRITE_PROMPT
  /\ "Hanging Leg Lifts" \in lastReq.prompt[2]
  /\ files["FinalWorkout.txt"] = response_text(lastReply)
  /\ files["FinalWorkout.txt"] = DraftOf(lastReq.prompt)

CategoryFrames ==
  {stack[i] : i \in {j \in DOMAIN stack : "cat" \in DOMAIN stack[j]}}

\* the images of the views of a category, in the order they are rated
ViewImages(c) == [n \in DOMAIN c.views |-> c.views[n].image]

FrontSide(f) == ViewImages(Categories[f.cat]) = <<FRONT_IMAGE, SIDE_IMAGE>>

\* the evaluator of a {front, side} category calls the fuser at most twice,
\* with the front image and then with the side image, and has called it
\* twice when it goes on to its own fusion request
C13_TwoInvocations ==
  \A i \in DOMAIN stack :
    ("cat" \in DOMAIN stack[i] /\ FrontSide(stack[i])) =>
      LET f == stack[i] IN
      /\ f.fusers <= 2
      /\ f.pc = "rate" => f.fusers \in {Len(f.quality), Len(f.quality) + 1}
      /\ f.pc \in {"fuse", "append"} => f.fusers = 2 /\ Len(f.quality) = 2
      /\ \A j \in DOMAIN stack :
           (j > i /\ "image_path" \in DOMAIN stack[j]) =>
             /\ f.fusers \in {1, 2}
             /\ stack[j].image_path = <<FRONT_IMAGE, SIDE_IMAGE>>[f.fusers]

\* no request issued while such an evaluator runs carries the back image
C13_NoBackImage ==
  ((\E f \in CategoryFrames : FrontSide(f)) /\ requests' # requests)
    => /\ Len(lastReq'.images) <= 1
       /\ \A k \in DOMAIN lastReq'.images :
            /\ lastReq'.images[k][2] # BACK_IMAGE
            /\ lastReq'.images[k][2] \in {FRONT_IMAGE, SIDE_IMAGE}

\* C13: the evaluator of a category whose views are front and side (such as
\* analyzeUpperChest) invokes analyze_image_rating exactly twice, first with
\* the front image and then with the side image, and no request issued
\* during the evaluation carries the back image.
C13_FrontSideOnly == [] C13_TwoInvocations /\ [][C13_NoBackImage]_vars

\* C13 witness: analyzeUpperChest is about to append after two invocations
\* in which a rating was retried
C13_Witness ==
  /\ InCategory /\ Top.fn = "analyzeUpperChest" /\ Top.pc = "append"
  /\ Top.fusers = 2 /\ requests > 9
  /\ lastReq.images = <<>>

\* C14, as claimed: every evaluator, when it appends, has issued exactly one
\* fusion request of its own, whose response is the text it appends.
C14_AlwaysOneCategoryFusion ==
  \A f \in CategoryFrames :
    f.pc = "append" =>
      /\ f.fusions = 1
      /\ lastReq.prompt = CategoryPrompt2(Categories[f.cat], f.quality)
      /\ f.quality_overall = response_text(lastReply)

C14_FusionByViews ==
  \A f \in CategoryFrames :
    LET c == Categories[f.cat] IN
    /\ f.pc \in {"rate", "fuse"} => f.fusions = 0
    /\ (f.pc = "append" /\ Len(c.views) >= 2) =>
         /\ f.fusions = 1
         /\ Len(f.quality) = Len(c.views)
         /\ lastReq = send_prompt_payload(CategoryPrompt2(c, f.quality))
         /\ f.quality_overall = response_text(lastReply)
    /\ (f.pc = "append" /\ Len(c.views) = 1) =>
         /\ f.fusions = 0
         /\ f.quality_overall = f.quality[1]
         /\ f.quality_overall = response_text(lastReply)
         /\ ~(\E g \in CategoryFrames :
                lastReq.prompt = CategoryPrompt2(Categories[g.cat], g.quality))

C14_AppendsOverall ==
  /\ (InCategory /\ Top.pc = "append") =>
       overPrompt' = overPrompt \o <<Categories[Top.cat].header>>
                       \o Top.quality_overall
  /\ overPrompt' # overPrompt => InCategory /\ Top.pc = "append"

\* C14, amended: an evaluator with two or more views issues exactly one
\* fusion request of its own, after its invocations of analyze_image_rating,
\* and appends the response to it; an evaluator with a single view issues
\* none and appends the text its one invocation returned.
C14_OneFusionUnlessSingleView ==
  [] C14_FusionByViews /\ [][C14_AppendsOverall]_vars

\* C14 witness: analyzeInnerChest has returned; the last request was the
\* fusion request of analyze_image_rating, whose response is the entry
C14_Witness ==
  /\ result # <<>> /\ ~aborted
  /\ Head(overPrompt) = "\n\ninner chest : \n\n"
  /\ Tail(overPrompt) = response_text(lastReply)
  /\ lastReq.prompt = FuserPrompt2(<<TXT_RATING, TXT_RATING, TXT_RATING>>)

RunFrames ==
  {stack[i] : i \in {j \in DOMAIN stack : stack[j].fn = "overallRun"}}

\* C15, as claimed: analyzeOverall runs after exactly 21 evaluations, on a
\* transcript of exactly 21 entries.
C15_TwentyOneEvaluations ==
  /\ \A f \in RunFrames : OverallFrames # {} => f.next - 1 = 21
  /\ OverallFrames # {} => Len(Entries(overPrompt)) = 21
  /\ (lastReq.prompt # <<>> /\ Head(lastReq.prompt) = RANKING_PROMPT)
       => Len(Entries(lastReq.prompt)) = 21

\* C15, amended: overallRun makes a fixed sequence of 23 calls, 22
\* evaluators and then analyzeOverall, so analyzeOverall runs after exactly
\* 22 evaluations and the transcript in the ranking request holds exactly 22
\* entries, of 22 different categories.
C15_TwentyTwoEvaluations ==
  /\ \A f \in RunFrames :
       /\ f.next \in 1..24
       /\ OverallFrames # {} => f.next = 23
       /\ f.next >= 23 => CategoryFrames = {}
       /\ (f.next <= 22 /\ CategoryFrames = {})
            => Len(Entries(overPrompt)) = f.next - 1
       /\ \A g \in CategoryFrames :
            /\ f.next <= 22
            /\ g.fn = overallRun_calls[f.next]
            /\ Len(Entries(overPrompt)) = f.next - 1
  /\ OverallFrames # {} => Len(Entries(overPrompt)) = 22
  /\ (lastReq.prompt # <<>> /\ Head(lastReq.prompt) = RANKING_PROMPT)
       => /\ Len(Entries(lastReq.prompt)) = 22
          /\ Cardinality({Entries(lastReq.prompt)[k] : k \in 1..22}) = 22

\* C15 witness: the run has returned and the last request of analyzeOverall
\* but for the queries was made on 22 entries
C15_Witness ==
  /\ result # <<>> /\ ~aborted
  /\ transcriptSent = 1
  /\ Len(Entries(overPrompt)) = 22
  /\ "FinalWorkout.txt" \in DOMAIN files

\* the step of analyzeOverall a request belongs to, told by its prompt
ReqKind(req) ==
  CASE Head(req.prompt) = RANKING_PROMPT -> "ranking"
    [] Head(req.prompt) = AFFIRMATION_PROMPT -> "affirmation"
    [] Head(req.prompt) = WORKOUT_PROMPT -> "workout"
    [] Head(req.prompt) = Head(SearchPrompt("", <<>>)) -> "query"
    [] Head(req.prompt) = REWRITE_PROMPT -> "rewrite"
    [] OTHER -> "rating"

NumQueries == SumOfSizes(Families, Len(Families))

\* where analyzeOverall stands, against the requests made and files written
C16_Progress ==
  /\ \A f \in OverallFrames :
       /\ f.pc = "994" => requests = 0 /\ files = <<>>
       /\ f.pc = "1001" =>
            requests = 1 /\ ReqKind(lastReq) = "ranking" /\ files = <<>>
       /\ f.pc = "1008" =>
            /\ requests = 2 /\ ReqKind(lastReq) = "affirmation"
            /\ DOMAIN files = {"Affirmations.txt"}
       /\ f.pc = "1015" =>
            /\ requests \in 3..(3 + NumQueries)
            /\ requests = 3 + SumOfSizes(Families, f.family - 1)
                 + Cardinality(UNION {g.inList \ g.todo :
                                        g \in {stack[Len(stack)]} \ {f}})
            /\ ReqKind(lastReq) = IF requests = 3 THEN "workout" ELSE "query"
            /\ DOMAIN files = {"Affirmations.txt"}
       /\ f.pc = "1052" =>
            /\ requests = 3 + NumQueries /\ ReqKind(lastReq) = "query"
            /\ DOMAIN files = {"Affirmations.txt"}
  /\ "FinalWorkout.txt" \in DOMAIN files =>
       /\ stack = <<>> /\ result # <<>> /\ ~aborted
       /\ DOMAIN files = {"Affirmations.txt", "FinalWorkout.txt"}
       /\ \/ requests = 3 + NumQueries /\ ReqKind(lastReq) = "query"
          \/ requests = 4 + NumQueries /\ ReqKind(lastReq) = "rewrite"
  /\ result # <<>> => "FinalWorkout.txt" \in DOMAIN files

\* the n-th request of analyzeOverall is of the n-th kind; the files are
\* written with the affirmation response and by the last step
C16_Order ==
  /\ requests' \in {requests, requests + 1}
  /\ requests' # requests =>
       /\ InOverall \/ InSearch
       /\ ReqKind(lastReq') =
            CASE requests = 0 -> "ranking"
              [] requests = 1 -> "affirmation"
              [] requests = 2 -> "workout"
              [] requests \in 3..(2 + NumQueries) -> "query"
              [] requests = 3 + NumQueries -> "rewrite"
              [] OTHER -> "none"
       /\ ReqKind(lastReq') = "rewrite" => Top.outSet # {}
  /\ (InOverall /\ Top.pc = "1052") =>
       /\ requests' # requests <=> Top.outSet # {}
       /\ ~aborted' => "FinalWorkout.txt" \in DOMAIN files'
  /\ ("Affirmations.txt" \notin DOMAIN files
        /\ "Affirmations.txt" \in DOMAIN files')
       => /\ requests' # requests /\ ReqKind(lastReq') = "affirmation"
          /\ files'["Affirmations.txt"] = response_text(lastReply')
  /\ (files' # files /\ "Affirmations.txt" \in DOMAIN files)
       => InOverall /\ Top.pc = "1052"

\* C16: the requests and writes of analyzeOverall come in this order and no
\* other: the ranking request, the affirmation request with the write of
\* Affirmations.txt, the workout request, the 7 queries, the rewrite request
\* if and only if outSet is not empty, the write of FinalWorkout.txt; each
\* step has the response of the one before.
C16_StepsInOrder == [] C16_Progress /\ [][C16_Order]_vars

\* C16 witness: analyzeOverall has returned after all eleven requests
C16_Witness ==
  /\ result # <<>> /\ ~aborted
  /\ requests = 4 + NumQueries
  /\ ReqKind(lastReq) = "rewrite"
  /\ DOMAIN files = {"Affirmations.txt", "FinalWorkout.txt"}

\* the text of a successful reply is the response itself
AsIs(text, reply) ==
  /\ reply.status_code = HTTP_OK => text = reply.response
  /\ text = response_text(reply)

\* C17: the ranking, affirmation and workout steps of analyzeOverall each
\* issue one request and go on to the next step with the response as it is,
\* whatever it contains; the rewrite step issues one request if outSet is not
\* empty and writes the response as it is; requests of these four kinds are
\* issued by these steps only.
C17_SingleRequestUsedAsIs ==
  [][/\ (InOverall /\ Top.pc = "994") =>
          /\ requests' = requests + 1 /\ ReqKind(lastReq') = "ranking"
          /\ ~aborted' =>
               /\ stack'[Len(stack')].pc = "1001"
               /\ AsIs(stack'[Len(stack')].overall_areas, lastReply')
     /\ (InOverall /\ Top.pc = "1001") =>
          /\ requests' = requests + 1 /\ ReqKind(lastReq') = "affirmation"
          /\ ~aborted' =>
               /\ stack'[Len(stack')].pc = "1008"
               /\ AsIs(stack'[Len(stack')].affirmations, lastReply')
               /\ AsIs(files'["Affirmations.txt"], lastReply')
     /\ (InOverall /\ Top.pc = "1008") =>
          /\ requests' = requests + 1 /\ ReqKind(lastReq') = "workout"
          /\ ~aborted' =>
               /\ stack'[Len(stack')].pc = "1015"
               /\ AsIs(stack'[Len(stack')].overall_work, lastReply')
     /\ (InOverall /\ Top.pc = "1052" /\ Top.outSet # {}) =>
          /\ requests' = requests + 1 /\ ReqKind(lastReq') = "rewrite"
          /\ ~aborted' =>
               /\ Len(stack') = Len(stack) - 1
               /\ AsIs(files'["FinalWorkout.txt"], lastReply')
     /\ (InOverall /\ Top.pc = "1052" /\ Top.outSet = {}) =>
          requests' = requests
     /\ (requests' # requests /\ ReqKind(lastReq') \notin {"query", "rating"})
          => /\ InOverall
             /\ Top.pc = CASE ReqKind(lastReq') = "ranking" -> "994"
                           [] ReqKind(lastReq') = "affirmation" -> "1001"
                           [] ReqKind(lastReq') = "workout" -> "1008"
                           [] ReqKind(lastReq') = "rewrite" -> "1052"]_vars

\* C17 witness: the queries begin after a ranking that is a refusal without
\* a digit, empty affirmations and a workout that is a refusal, each taken
\* from a single request
C17_Witness ==
  /\ InOverall /\ Top.pc = "1015" /\ requests = 3
  /\ HasRefusalPhrase(Top.overall_areas) /\ ~HasDigit(Top.overall_areas)
  /\ Top.affirmations = <<>> /\ files["Affirmations.txt"] = <<>>
  /\ HasRefusalPhrase(Top.overall_work)

\* the calls are nested: an acquirer runs on top of the stack, called by the
\* fuser waiting at line 193, 195 or 197, which was called by an evaluator
\* waiting for a view; every request made so far has been answered or has
\* ended the process
C18_Nested ==
  /\ \A i \in DOMAIN stack :
       /\ stack[i].fn = "analyze_image_rating_internal" =>
            /\ i = Len(stack) /\ i > 1
            /\ stack[i - 1].fn = "analyze_image_rating"
            /\ stack[i - 1].pc \in {"193", "195", "197"}
       /\ (stack[i].fn = "analyze_image_rating" /\ i > 1) =>
            /\ "cat" \in DOMAIN stack[i - 1]
            /\ stack[i - 1].pc = "rate"
  /\ requests = 0 <=> lastReply = NoReply
  /\ aborted <=> lastReply.kind = "unreachable"
  /\ aborted => stack = <<>>

\* a step issues at most one request, made by the function on top of the
\* stack while its callers stay where they are; the acquirer returns, with
\* no further request, only on a valid response or after its 16th request
C18_Sequential ==
  /\ requests' \in {requests, requests + 1}
  /\ (requests' # requests /\ ~aborted') =>
       /\ Len(stack') = Len(stack)
       /\ \A i \in 1..(Len(stack) - 1) : stack'[i].pc = stack[i].pc
       /\ lastReply'.kind \in {"nominal", "deviant", "failure"}
  /\ (InAcquirer /\ requests' # requests) =>
       lastReq' = analyze_image_internal_payload(Top.image_path, Top.prompt)
  /\ (InAcquirer /\ requests' = requests) =>
       /\ Len(stack') = Len(stack) - 1
       /\ Top.pc = "167"
       /\ ~Invalid(Top.desc) \/ Top.reqs = 16
       /\ stack'[Len(stack')].quality[Len(stack'[Len(stack')].quality)]
            = Top.desc

\* C18: requests are issued one at a time, each by the running function
\* after the response to the one before; a retry sequence of the acquirer
\* ends with a valid response or with the 16th, and only then does the
\* caller go on.
C18_StrictlySequential == [] C18_Nested /\ [][C18_Sequential]_vars

\* C18 witness: the first acquisition of a fuser was retried to exhaustion,
\* and only then did the fuser come to its second acquisition
C18_Witness ==
  /\ InFuser /\ Top.pc = "195"
  /\ requests = 16
  /\ Invalid(Top.quality[1])

\* requests made by the acquirer are counted by its frame and by the process
C19_Counted ==
  /\ \A f \in AcquirerFrames :
       /\ f.reqs = requests
       /\ f.pc = "167" => f.desc = response_text(lastReply) /\ requests >= 1
  /\ result # <<>> =>
       /\ requests \in 1..16
       /\ result[1] = response_text(lastReply)
       /\ Invalid(result[1]) => requests = 16

C19_StopsAtFirstValid ==
  /\ (InAcquirer /\ Top.pc = "163") => requests = 0 /\ requests' = 1
  /\ (InAcquirer /\ Top.pc = "167" /\ ~Invalid(Top.desc)) =>
       /\ requests' = requests
       /\ stack' = <<>> /\ ~aborted'
       /\ result' = <<Top.desc>>
  /\ (InAcquirer /\ Top.pc = "167" /\ requests' # requests) =>
       Invalid(Top.desc) /\ requests < 16

\* C19: the acquirer issues a further request only after an invalid response
\* and returns the first valid response without any further request: when
\* the first valid response is the k-th it has issued exactly k requests and
\* returns the k-th response, and a valid first response is returned after
\* one request.
C19_FirstValidReturned == [] C19_Counted /\ [][C19_StopsAtFirstValid]_vars

\* C19 witness: the acquirer has returned a valid response that was not the
\* first one and not the 16th
C19_Witness ==
  /\ result # <<>> /\ ~aborted
  /\ ~Invalid(result[1])
  /\ requests \in 2..15
  /\ lastReply.response = result[1]

\* C20, as claimed: the ranking request of a call of overallRun embeds the
\* entries appended during that call only, one per category.
C20_RankingOfThisRunOnly ==
  (requests > 0 /\ ReqKind(lastReq) = "ranking")
    => Entries(lastReq.prompt) = ExpectedHeaders

\* C21: every step leaves overPrompt as it is or extends it; it is extended
\* only by the last step of a category evaluator, which issues no request
\* and returns, and by exactly one entry; an evaluator returns in no other
\* way; no step of analyzeOverall or srchExerciseEntries changes it.
C21_AppendOnly ==
  [][/\ IsPrefix(overPrompt, overPrompt')
     /\ overPrompt' # overPrompt =>
          /\ InCategory /\ Top.pc = "append"
          /\ requests' = requests /\ ~aborted'
          /\ Len(stack') = Len(stack) - 1
          /\ Len(Entries(overPrompt')) = Len(Entries(overPrompt)) + 1
          /\ Entries(overPrompt') =
               Append(Entries(overPrompt), Categories[Top.cat].header)
     /\ (InCategory /\ Len(stack') < Len(stack) /\ ~aborted') =>
          overPrompt' # overPrompt
     /\ (InCategory /\ requests' # requests /\ ~aborted') =>
          /\ stack'[Len(stack')].pc = "append"
          /\ overPrompt' = overPrompt
     /\ (InOverall \/ InSearch) => overPrompt' = overPrompt]_vars

\* C21 witness: the last query of analyzeOverall has been answered and
\* overPrompt is what the ranking request was given
C21_Witness ==
  /\ InSearch /\ Top.todo = {} /\ Top.inList = Families[Len(Families)]
  /\ Len(Entries(overPrompt)) = Len(Categories)
  /\ transcriptSent = 1

\* the families are searched one after the other, each from its first item
C22_Searching ==
  /\ \A i \in DOMAIN stack :
       stack[i].fn = "srchExerciseEntries" =>
         /\ i = Len(stack) /\ i > 1
         /\ stack[i - 1].fn = "analyzeOverall" /\ stack[i - 1].pc = "1015"
         /\ stack[i].inList = Families[stack[i - 1].family]
         /\ stack[i].todo \subseteq stack[i].inList
         /\ requests = 3 + SumOfSizes(Families, stack[i - 1].family - 1)
                         + Cardinality(stack[i].inList \ stack[i].todo)
  /\ \A f \in OverallFrames :
       /\ f.family \in 1..(Len(Families) + 1)
       /\ f.pc = "1052" <=> f.family = Len(Families) + 1
       /\ f.pc = "1052" => requests = 3 + 7
       /\ (f.pc = "1015" /\ f = Top) =>
            requests = 3 + SumOfSizes(Families, f.family - 1)

\* every item of the family is asked about once, whatever was found
C22_OneQueryPerItem ==
  /\ (InSearch /\ Top.todo # {}) =>
       /\ requests' = requests + 1
       /\ ReqKind(lastReq') = "query"
       /\ lastReq'.prompt[2] \in Top.todo
       /\ lastReq'.prompt = SearchPrompt(lastReq'.prompt[2], Top.inWork)
       /\ ~aborted' =>
            stack'[Len(stack')].todo = Top.todo \ {lastReq'.prompt[2]}
  /\ (InSearch /\ Top.todo = {}) =>
       requests' = requests /\ Len(stack') = Len(stack) - 1
  /\ (InOverall /\ Top.pc = "1015") =>
       /\ requests' = requests
       /\ stack'[Len(stack')].fn = "srchExerciseEntries"
       /\ stack'[Len(stack')].todo = Families[Top.family]

\* C22: srchExerciseEntries is called for each of the three families and
\* issues exactly one query for each member of the family, 7 queries in a
\* run, whether or not an earlier answer counted as a yes.
C22_SevenQueries == [] C22_Searching /\ [][C22_OneQueryPerItem]_vars

\* C22 witness: all 7 queries were issued although every one of them was
\* answered with a yes
C22_Witness ==
  /\ InOverall /\ Top.pc = "1052"
  /\ requests = 3 + 7
  /\ Top.matched = UNION {Families[k] : k \in DOMAIN Families}

\* how many times the suffix of line 191 occurs in a prompt
SuffixCount(prompt) ==
  Cardinality({k \in DOMAIN prompt : prompt[k] = PROMPT_ENGINEERING_RATING[1]})

\* the prompt of the fuser is the base prompt with the suffix, once; its
\* acquirer has the same image and prompt, and so has the most recent
\* request until the fusion request, which has no image
C23_SamePayload ==
  \A i \in DOMAIN stack :
    stack[i].fn = "analyze_image_rating" =>
      LET f == stack[i] IN
      /\ \E inPrompt \in {PROMPT_CARDIO, PROMPT_NECK_FRONT} :
           f.prompt = inPrompt \o PROMPT_ENGINEERING_RATING
      /\ SuffixCount(f.prompt) = 1
      /\ \A j \in DOMAIN stack :
           stack[j].fn = "analyze_image_rating_internal" =>
             /\ stack[j].image_path = f.image_path
             /\ stack[j].prompt = f.prompt
      /\ (f.reqs > 0 /\ f.pc # "203") =>
           /\ lastReq.prompt = f.prompt
           /\ lastReq.images = <<<<"base64", f.image_path>>>>
      /\ f.pc = "203" =>
           /\ f.acqs = 3 /\ Len(f.quality) = 3
           /\ lastReq.images = <<>>
           /\ lastReq.prompt = FuserPrompt2(f.quality)

\* a request is a rating request of the acquirer, with the image and the
\* prompt of the fuser, or the fusion request, made after three acquisitions
C23_RequestsOfFuser ==
  requests' # requests =>
    \/ /\ InAcquirer
       /\ lastReq'.prompt = stack[1].prompt
       /\ lastReq'.images = <<<<"base64", stack[1].image_path>>>>
       /\ SuffixCount(lastReq'.prompt) = 1
    \/ /\ InFuser /\ Top.pc = "199"
       /\ Top.acqs = 3 /\ Len(Top.quality) = 3
       /\ lastReq'.images = <<>>

\* C23: in one invocation of analyze_image_rating every rating request, the
\* retries of the three acquisitions included, carries the image of the
\* invocation and its prompt, which is inPrompt followed by the suffix once;
\* the fusion request carries no image and follows the third acquisition.
C23_IdenticalRatingRequests ==
  [] C23_SamePayload /\ [][C23_RequestsOfFuser]_vars

\* C23 witness: the fusion request has been answered after a second
\* acquisition that was retried to exhaustion
C23_Witness ==
  /\ InFuser /\ Top.pc = "203"
  /\ Invalid(Top.quality[2])
  /\ requests >= 19
  /\ lastReq.images = <<>>

\* what is on disk when the process has ended: after an abort at the ranking
\* or affirmation request nothing, after an abort at a later request
\* Affirmations.txt only, after a complete call both files
C24_FilesAtEnd ==
  /\ aborted =>
       /\ "FinalWorkout.txt" \notin DOMAIN files
       /\ ReqKind(lastReq) \in {"ranking", "affirmation"} => files = <<>>
       /\ ReqKind(lastReq) \in {"workout", "query", "rewrite"} =>
            DOMAIN files = {"Affirmations.txt"}
  /\ result # <<>> =>
       /\ ~aborted /\ stack = <<>>
       /\ DOMAIN files = {"Affirmations.txt", "FinalWorkout.txt"}
  /\ \A f \in OverallFrames :
       /\ f.pc \in {"994", "1001"} <=> "Affirmations.txt" \notin DOMAIN files
       /\ "FinalWorkout.txt" \notin DOMAIN files
       /\ f.pc \notin {"994", "1001"} =>
            files["Affirmations.txt"] = f.affirmations

\* the files change in two steps only: the affirmation step writes
\* Affirmations.txt, and the step that writes FinalWorkout.txt is the last
C24_Writes ==
  /\ files' # files =>
       \/ /\ InOverall /\ Top.pc = "1001" /\ ~aborted'
          /\ DOMAIN files' = {"Affirmations.txt"}
       \/ /\ InOverall /\ Top.pc = "1052" /\ ~aborted'
          /\ stack' = <<>> /\ result' # <<>>
          /\ DOMAIN files' = {"Affirmations.txt", "FinalWorkout.txt"}
          /\ files'["Affirmations.txt"] = files["Affirmations.txt"]
  /\ aborted' => files' = files
  /\ (InOverall /\ Top.pc \in {"1001", "1052"} /\ ~aborted') =>
       DOMAIN files' # DOMAIN files

\* C24: when a request after the affirmation step (the workout request, a
\* query or the rewrite request) raises, Affirmations.txt has been written
\* and FinalWorkout.txt has not; in a call that completes each file is
\* written in exactly one step, and the write of FinalWorkout.txt is the
\* last step.
C24_ArtifactsOnAbortAndCompletion == [] C24_FilesAtEnd /\ [][C24_Writes]_vars

\* C24 witness: the rewrite request raised
C24_Witness ==
  /\ aborted
  /\ ReqKind(lastReq) = "rewrite"
  /\ DOMAIN files = {"Affirmations.txt"}

\* the entry function has returned, or a request raised
Terminated == stack = <<>> /\ (aborted \/ result # <<>>)

\* the caps on the requests of an acquisition and of a fuser invocation, and
\* what a run (which has called evaluators) leaves when it returns
C25_Bounded ==
  /\ \A f \in AcquirerFrames : f.reqs <= 16
  /\ \A f \in FuserFrames : f.reqs <= 49
  /\ (result # <<>> /\ overPrompt # <<>>) =>
       /\ "FinalWorkout.txt" \in DOMAIN files
       /\ Entries(overPrompt) = ExpectedHeaders

\* C25: unless a request raises, the entry function returns, whatever the
\* responses are, and a run that returns has written FinalWorkout.txt; an
\* acquisition never issues more than 16 requests and a fuser invocation
\* never more than 49.
C25_AlwaysTerminates == <>Terminated /\ [] C25_Bounded

\* C25 witness: a run in which the source gave every answer other than the
\* expected ones that it could has returned, with FinalWorkout.txt written
C25_Witness ==
  /\ Terminated /\ ~aborted
  /\ overPrompt # <<>>
  /\ deviationsLeft = 0
  /\ "FinalWorkout.txt" \in DOMAIN files

\* the model a request of each kind is sent to
C26_ModelOf(req) ==
  IF ReqKind(req) \in {"affirmation", "workout", "rewrite"}
    THEN "gpt-oss:20b" ELSE "llava"

\* C26: the affirmation, workout and rewrite requests go to gpt-oss:20b and
\* every other request (rating, fusion, ranking, query) to llava; a request
\* carries an image, one, exactly when analyze_image_rating_internal issues
\* it, and no request streams.
C26_Routing ==
  [][requests' # requests =>
       /\ lastReq'.model = C26_ModelOf(lastReq')
       /\ lastReq'.stream = FALSE
       /\ lastReq'.images # <<>> <=> InAcquirer
       /\ InAcquirer =>
            /\ lastReq'.images = <<<<"base64", Top.image_path>>>>
            /\ ReqKind(lastReq') = "rating"
       /\ (InOverall /\ Top.pc \in {"1001", "1008", "1052"})
            <=> lastReq'.model = "gpt-oss:20b"
       /\ (InFuser \/ InCategory \/ InSearch \/ InAcquirer
             \/ (InOverall /\ Top.pc = "994"))
            <=> lastReq'.model = "llava"]_vars

\* C26 witness: the run has returned after a rewrite request, the last of
\* its three requests to gpt-oss:20b
C26_Witness ==
  /\ result # <<>> /\ ~aborted
  /\ lastReq.model = "gpt-oss:20b"
  /\ lastReq.images = <<>>
  /\ Len(Entries(overPrompt)) = Len(Categories)

====
